---- MODULE Spec2Model ----
(***************************************************************************)
(* A model of smithay-egui's src/lib.rs: the process-wide identifier       *)
(* registry (EGUI_ID, EGUI_IDS, next_id), one EguiState with its input     *)
(* handlers and run, and the EguiFrame draw entry points.                  *)
(*                                                                         *)
(* Three specifications share the variables:                               *)
(*   Spec     one EguiState driven by its host thread: handlers, run, draw *)
(*   SpecIds  several threads calling EguiState::new, hence next_id        *)
(*   SpecRun  run applied to areas and scales drawn from bounded sets      *)
(***************************************************************************)
EXTENDS Integers, Sequences, FiniteSets, TLC

(***************************************************************************)
(* Bounds of the model.                                                    *)
(***************************************************************************)
\* usize is modelled with UsizeBits bits, so that wraparound is reachable.
UsizeBits == 2
\* Number of threads constructing EguiStates concurrently (SpecIds).
NThreads == 2
\* EguiState::new calls each thread makes (SpecIds).
MaxNew == 3
\* Calls the host makes on the EguiState and its frames (Spec).
MaxCalls == 3
\* run calls of SpecRun.
MaxRuns == 1

RECURSIVE Pow2(_)
Pow2(n) == IF n = 0 THEN 1 ELSE 2 * Pow2(n - 1)

USIZE_MAX == Pow2(UsizeBits) - 1
Threads == 1..NThreads

VARIABLES
  debug_assertions,       \* the build: debug_assert! and overflow checks on
  EGUI_ID,                \* static EGUI_ID: AtomicUsize
  EGUI_IDS,               \* static EGUI_IDS: Mutex<HashSet<usize>>, the set
  mutex,                  \* holder of the EGUI_IDS lock, 0 when free
  poisoned,               \* the EGUI_IDS mutex is poisoned
  pc,                     \* per thread: its place in EguiState::new / next_id
  cand,                   \* per thread: next_id's local `id`
  returned,               \* per thread: the ids next_id returned to it, in order
  frames,                 \* the EguiFrames the host got from its EguiStates (SpecFrames)
  id,                     \* EguiState.id
  pointers,               \* EguiState.pointers
  last_pointer_position,  \* EguiState.last_pointer_position
  events,                 \* EguiState.events
  ctx,                    \* EguiState.ctx: the RawInputs it was run with, in order
  frame,                  \* <<the EguiFrame the last run returned>>, <<>> before
  last_draw,              \* <<outcome of the last call on the frame>>, <<>> before
  panicked,               \* the host thread panicked inside a handler
  log                     \* the calls made on the EguiState, with what each pushed

regvars == <<debug_assertions, EGUI_ID, EGUI_IDS, mutex, poisoned, pc, cand, returned, frames>>
statevars == <<id, pointers, last_pointer_position, events, ctx, frame, last_draw, panicked, log>>
vars == <<debug_assertions, EGUI_ID, EGUI_IDS, mutex, poisoned, pc, cand, returned, frames,
          id, pointers, last_pointer_position, events, ctx, frame, last_draw, panicked, log>>

(***************************************************************************)
(* Identity registry: next_id, step by step, under the EGUI_IDS lock.      *)
(***************************************************************************)
\* usize bitwise not
BitNot(n) == USIZE_MAX - n

\* AtomicUsize::fetch_add(1): wraps around on overflow
WrapInc(n) == (n + 1) % (USIZE_MAX + 1)

ReturnedSet == UNION {{returned[t][i] : i \in 1..Len(returned[t])} : t \in Threads}

\* EguiState::new is entered: the call of next_id begins
New(t) ==
  /\ pc[t] = "idle"
  /\ Len(returned[t]) < MaxNew
  /\ pc' = [pc EXCEPT ![t] = "lock"]
  /\ UNCHANGED <<debug_assertions, EGUI_ID, EGUI_IDS, mutex, poisoned, cand, returned>>
  /\ UNCHANGED <<frames, statevars>>

\* let mut ids = EGUI_IDS.lock().unwrap();
NextIdLock(t) ==
  /\ pc[t] = "lock"
  /\ mutex = 0
  /\ IF poisoned
       THEN /\ pc' = [pc EXCEPT ![t] = "panicked"]
            /\ UNCHANGED mutex
       ELSE /\ pc' = [pc EXCEPT ![t] = "assert"]
            /\ mutex' = t
  /\ UNCHANGED <<debug_assertions, EGUI_ID, EGUI_IDS, poisoned, cand, returned>>
  /\ UNCHANGED <<frames, statevars>>

\* debug_assert!(!ids.len() == usize::MAX);
NextIdAssert(t) ==
  /\ pc[t] = "assert"
  /\ IF debug_assertions /\ BitNot(Cardinality(EGUI_IDS)) # USIZE_MAX
       THEN /\ pc' = [pc EXCEPT ![t] = "panicked"]
            /\ poisoned' = TRUE
            /\ mutex' = 0
       ELSE /\ pc' = [pc EXCEPT ![t] = "fetch"]
            /\ UNCHANGED <<poisoned, mutex>>
  /\ UNCHANGED <<debug_assertions, EGUI_ID, EGUI_IDS, cand, returned>>
  /\ UNCHANGED <<frames, statevars>>

\* let mut id = EGUI_ID.fetch_add(1, Ordering::SeqCst);
NextIdFetch(t) ==
  /\ pc[t] = "fetch"
  /\ cand' = [cand EXCEPT ![t] = EGUI_ID]
  /\ EGUI_ID' = WrapInc(EGUI_ID)
  /\ pc' = [pc EXCEPT ![t] = "loop"]
  /\ UNCHANGED <<debug_assertions, EGUI_IDS, mutex, poisoned, returned>>
  /\ UNCHANGED <<frames, statevars>>

\* while ids.iter().any(|k| *k == id) { id = EGUI_ID.fetch_add(1, ..); }
NextIdLoopNoSkip(t) ==
  /\ pc[t] = "loop"
  /\ pc' = [pc EXCEPT ![t] = "insert"]
  /\ UNCHANGED <<cand, EGUI_ID>>
  /\ UNCHANGED <<debug_assertions, EGUI_IDS, mutex, poisoned, returned>>
  /\ UNCHANGED <<frames, statevars>>

NextIdLoop(t) ==
  /\ pc[t] = "loop"
  /\ IF cand[t] \in EGUI_IDS
       THEN /\ cand' = [cand EXCEPT ![t] = EGUI_ID]
            /\ EGUI_ID' = WrapInc(EGUI_ID)
            /\ UNCHANGED pc
       ELSE /\ pc' = [pc EXCEPT ![t] = "insert"]
            /\ UNCHANGED <<cand, EGUI_ID>>
  /\ UNCHANGED <<debug_assertions, EGUI_IDS, mutex, poisoned, returned>>
  /\ UNCHANGED <<frames, statevars>>

\* ids.insert(id);
NextIdInsertNothing(t) ==
  /\ pc[t] = "insert"
  /\ pc' = [pc EXCEPT ![t] = "ret"]
  /\ UNCHANGED <<debug_assertions, EGUI_ID, EGUI_IDS, mutex, poisoned, cand, returned>>
  /\ UNCHANGED <<frames, statevars>>

NextIdInsert(t) ==
  /\ pc[t] = "insert"
  /\ EGUI_IDS' = EGUI_IDS \cup {cand[t]}
  /\ pc' = [pc EXCEPT ![t] = "ret"]
  /\ UNCHANGED <<debug_assertions, EGUI_ID, mutex, poisoned, cand, returned>>
  /\ UNCHANGED <<frames, statevars>>

\* id  (the guard is dropped, the caller gets the id: EguiState { id: next_id(), .. })
NextIdReturn(t) ==
  /\ pc[t] = "ret"
  /\ mutex' = 0
  /\ returned' = [returned EXCEPT ![t] = Append(@, cand[t])]
  /\ pc' = [pc EXCEPT ![t] = "idle"]
  /\ UNCHANGED <<debug_assertions, EGUI_ID, EGUI_IDS, poisoned, cand>>
  /\ UNCHANGED <<frames, statevars>>

InitIds ==
  /\ debug_assertions \in BOOLEAN
  /\ EGUI_ID = 0
  /\ EGUI_IDS = {}
  /\ mutex = 0
  /\ poisoned = FALSE
  /\ pc = [t \in Threads |-> "idle"]
  /\ cand = [t \in Threads |-> 0]
  /\ returned = [t \in Threads |-> <<>>]
  /\ frames = <<>>
  /\ id = 0
  /\ pointers = 0
  /\ last_pointer_position = [x |-> 0, y |-> 0]
  /\ events = <<>>
  /\ ctx = <<>>
  /\ frame = <<>>
  /\ last_draw = <<>>
  /\ panicked = FALSE
  /\ log = <<>>

NextIds ==
  \E t \in Threads :
    \/ New(t)
    \/ NextIdLock(t)
    \/ NextIdAssert(t)
    \/ NextIdFetch(t)
    \/ NextIdLoop(t)
    \/ NextIdInsert(t)
    \/ NextIdReturn(t)

SpecIds == InitIds /\ [][NextIds]_vars

\* fair scheduling of the callers: a thread inside next_id keeps running, and a
\* thread waiting for the lock gets it if the lock keeps becoming free
FairIds ==
  \A t \in Threads :
    /\ SF_vars(NextIdLock(t))
    /\ WF_vars(NextIdAssert(t) \/ NextIdFetch(t) \/ NextIdLoop(t)
                 \/ NextIdInsert(t) \/ NextIdReturn(t))

SpecIdsFair == InitIds /\ [][NextIds]_vars /\ FairIds

(***************************************************************************)
(* Host-side input values.                                                 *)
(***************************************************************************)
\* smithay Devices with their capabilities
Devices ==
  { [name |-> "mouse1", caps |-> {"Pointer"}],
    [name |-> "mouse2", caps |-> {"Pointer"}],
    [name |-> "kbd", caps |-> {"Keyboard"}] }

has_capability(device, cap) == cap \in device.caps

\* ModifiersState values the host passes
ModifiersStates ==
  { [ctrl |-> FALSE, alt |-> FALSE, shift |-> FALSE, logo |-> FALSE],
    [ctrl |-> TRUE, alt |-> FALSE, shift |-> TRUE, logo |-> FALSE] }

\* raw_syms lists of a key event: "XK_F13" has no mapping
RawSymLists ==
  { <<"XK_F13">>, <<"XK_F13", "XK_a">>, <<"XK_a", "XK_Escape">> }

\* (button, pressed, modifiers) of a pointer button event: "Other" has no mapping
ButtonInputs ==
  { [button |-> "Left", pressed |-> TRUE,
     modifiers |-> [ctrl |-> FALSE, alt |-> FALSE, shift |-> FALSE, logo |-> FALSE]],
    [button |-> "Left", pressed |-> FALSE,
     modifiers |-> [ctrl |-> TRUE, alt |-> FALSE, shift |-> TRUE, logo |-> FALSE]],
    [button |-> "Other", pressed |-> TRUE,
     modifiers |-> [ctrl |-> TRUE, alt |-> FALSE, shift |-> TRUE, logo |-> FALSE]],
    [button |-> "Other", pressed |-> FALSE,
     modifiers |-> [ctrl |-> FALSE, alt |-> FALSE, shift |-> FALSE, logo |-> FALSE]] }

\* Point<i32, Logical> values of pointer motion
Positions == { [x |-> 10, y |-> 20], [x |-> 16777217, y |-> -3] }

AxisAmounts == { [x |-> 0, y |-> -15] }

(***************************************************************************)
(* Numeric conversions.                                                    *)
(***************************************************************************)
Abs(n) == IF n < 0 THEN -n ELSE n

\* spacing of the f32 values around a magnitude a (24 bits of mantissa)
RECURSIVE Ulp(_)
Ulp(a) == IF a < Pow2(24) THEN 1 ELSE 2 * Ulp(a \div 2)

\* `n as f32` for an integer n: round to nearest, ties to even
AsF32(n) ==
  LET a == Abs(n)
      u == Ulp(a)
      q == a \div u
      r == a % u
      up == (2 * r > u) \/ (2 * r = u /\ q % 2 = 1)
      m == (IF up THEN q + 1 ELSE q) * u
  IN IF n < 0 THEN -m ELSE m

\* f32 addition of two f32 values that are integers: the exact sum, rounded
AddF32(a, b) == AsF32(a + b)

\* Pos2::new(x as f32, y as f32)
Pos2(p) == [x |-> AsF32(p.x), y |-> AsF32(p.y)]

\* A scale is a number of halves (2 is 1.0, 3 is 1.5, 4 is 2.0).
\* Coordinate::to_physical(scale) followed by f64::round (half away from zero)
\* and the cast to i32; inputs keep the product inside i32.
ScaleRound(v, scale) ==
  LET n == v * scale
  IN IF n >= 0 THEN (n + 1) \div 2 ELSE -((1 - n) \div 2)

\* area.to_f64().to_physical(scale).to_i32_round::<i32>()
to_physical_i32_round_unscaled(area, scale) == area

to_physical_i32_round(area, scale) ==
  [loc |-> [x |-> ScaleRound(area.loc.x, scale), y |-> ScaleRound(area.loc.y, scale)],
   size |-> [w |-> ScaleRound(area.size.w, scale), h |-> ScaleRound(area.size.h, scale)]]

(***************************************************************************)
(* Event normalizer (mod types).                                           *)
(***************************************************************************)
\* the key table: a raw symbol's egui key, "None" when it has no entry
KeyTable(sym) ==
  CASE sym = "XK_a" -> "A"
    [] sym = "XK_Escape" -> "Escape"
    [] OTHER -> "None"

\* convert_key: the first candidate with a mapping, <<>> for None
RECURSIVE convert_key(_)
convert_key(raw_syms) ==
  IF raw_syms = <<>> THEN <<>>
  ELSE IF KeyTable(Head(raw_syms)) # "None" THEN <<KeyTable(Head(raw_syms))>>
  ELSE convert_key(Tail(raw_syms))

\* convert_button: <<>> for None
convert_button(button) ==
  CASE button = "Left" -> <<"Primary">>
    [] button = "Right" -> <<"Secondary">>
    [] button = "Middle" -> <<"Middle">>
    [] OTHER -> <<>>

\* convert_modifiers: total, field for field
convert_modifiers(modifiers) ==
  [alt |-> modifiers.alt, ctrl |-> modifiers.ctrl, shift |-> modifiers.shift,
   mac_cmd |-> FALSE, command |-> modifiers.ctrl]

(***************************************************************************)
(* egui events.                                                            *)
(***************************************************************************)
PointerGone == [type |-> "PointerGone"]
Key(key, pressed, modifiers) ==
  [type |-> "Key", key |-> key, pressed |-> pressed, modifiers |-> modifiers]
PointerMoved(pos) == [type |-> "PointerMoved", pos |-> pos]
PointerButton(pos, button, pressed, modifiers) ==
  [type |-> "PointerButton", pos |-> pos, button |-> button, pressed |-> pressed,
   modifiers |-> modifiers]
Scroll(x, y) == [type |-> "Scroll", x |-> x, y |-> y]

(***************************************************************************)
(* EguiState: input handlers.  Each operator is the handler's effect on    *)
(* the EguiState's fields (and whether the call panicked).                 *)
(***************************************************************************)
\* self.pointers += 1: panics on overflow with debug assertions, wraps without
\* self.pointers -= 1: likewise on underflow
handle_device_added_any(device) ==
  /\ pointers' = IF pointers = USIZE_MAX THEN 0 ELSE pointers + 1
  /\ UNCHANGED <<id, last_pointer_position, events, panicked>>

handle_device_added(device) ==
  /\ IF has_capability(device, "Pointer")
       THEN IF pointers = USIZE_MAX
              THEN IF debug_assertions
                     THEN panicked' = TRUE /\ UNCHANGED pointers
                     ELSE pointers' = 0 /\ UNCHANGED panicked
              ELSE pointers' = pointers + 1 /\ UNCHANGED panicked
       ELSE UNCHANGED <<pointers, panicked>>
  /\ UNCHANGED <<id, last_pointer_position, events>>

handle_device_removed_always(device) ==
  /\ IF has_capability(device, "Pointer") /\ pointers > 0
       THEN pointers' = pointers - 1
       ELSE UNCHANGED pointers
  /\ events' = Append(events, PointerGone)
  /\ UNCHANGED <<id, last_pointer_position, panicked>>

handle_device_removed(device) ==
  /\ IF has_capability(device, "Pointer")
       THEN IF pointers = 0
              THEN IF debug_assertions
                     THEN panicked' = TRUE /\ UNCHANGED pointers
                     ELSE pointers' = USIZE_MAX /\ UNCHANGED panicked
              ELSE pointers' = pointers - 1 /\ UNCHANGED panicked
       ELSE UNCHANGED <<pointers, panicked>>
  /\ IF ~panicked' /\ pointers' = 0
       THEN events' = Append(events, PointerGone)
       ELSE UNCHANGED events
  /\ UNCHANGED <<id, last_pointer_position>>

handle_keyboard_press_only(raw_syms, pressed, modifiers) ==
  /\ IF convert_key(raw_syms) # <<>> /\ pressed
       THEN events' = Append(events,
                        Key(convert_key(raw_syms)[1], pressed, convert_modifiers(modifiers)))
       ELSE UNCHANGED events
  /\ UNCHANGED <<id, pointers, last_pointer_position, panicked>>

handle_keyboard(raw_syms, pressed, modifiers) ==
  /\ IF convert_key(raw_syms) # <<>>
       THEN events' = Append(events,
                        Key(convert_key(raw_syms)[1], pressed, convert_modifiers(modifiers)))
       ELSE UNCHANGED events
  /\ UNCHANGED <<id, pointers, last_pointer_position, panicked>>

handle_pointer_motion_forgetful(position) ==
  /\ events' = Append(events, PointerMoved(Pos2(position)))
  /\ UNCHANGED <<id, pointers, last_pointer_position, panicked>>

handle_pointer_motion(position) ==
  /\ last_pointer_position' = position
  /\ events' = Append(events, PointerMoved(Pos2(position)))
  /\ UNCHANGED <<id, pointers, panicked>>

handle_pointer_button_always(button, pressed, modifiers) ==
  /\ events' = Append(events,
                 PointerButton(Pos2(last_pointer_position),
                               IF convert_button(button) # <<>>
                                 THEN convert_button(button)[1] ELSE "Primary",
                               pressed, convert_modifiers(modifiers)))
  /\ UNCHANGED <<id, pointers, last_pointer_position, panicked>>

handle_pointer_button(button, pressed, modifiers) ==
  /\ IF convert_button(button) # <<>>
       THEN events' = Append(events,
                        PointerButton(Pos2(last_pointer_position), convert_button(button)[1],
                                      pressed, convert_modifiers(modifiers)))
       ELSE UNCHANGED events
  /\ UNCHANGED <<id, pointers, last_pointer_position, panicked>>

handle_pointer_axis_nonzero(x_amount, y_amount) ==
  /\ IF x_amount # 0
       THEN events' = Append(events, Scroll(AsF32(x_amount), AsF32(y_amount)))
       ELSE UNCHANGED events
  /\ UNCHANGED <<id, pointers, last_pointer_position, panicked>>

handle_pointer_axis(x_amount, y_amount) ==
  /\ events' = Append(events, Scroll(AsF32(x_amount), AsF32(y_amount)))
  /\ UNCHANGED <<id, pointers, last_pointer_position, panicked>>

(***************************************************************************)
(* EguiState::run and the frame it returns.                                *)
(***************************************************************************)
\* the RawInput run builds (time, the wall clock's reading, is left out)
RawInput(area, scale, modifiers, evs) ==
  LET a == to_physical_i32_round(area, scale)
  IN [screen_rect |->
        [min |-> [x |-> AsF32(a.loc.x), y |-> AsF32(a.loc.y)],
         max |-> [x |-> AddF32(AsF32(a.loc.x), AsF32(a.size.w)),
                  y |-> AddF32(AsF32(a.loc.y), AsF32(a.size.h))]],
      pixels_per_point |-> scale,
      predicted_dt |-> "1/60",
      modifiers |-> convert_modifiers(modifiers),
      events |-> evs]

\* self.events.drain(..).collect(): the events handed over, the events left
drain_keep(evs) == [taken |-> evs, left |-> evs]
drain_reversed(evs) ==
  [taken |-> [i \in 1..Len(evs) |-> evs[Len(evs) + 1 - i]], left |-> <<>>]
drain(evs) == [taken |-> evs, left |-> <<>>]

\* EguiFrame { state_id: self.id, .., scale, .., size }
EguiFrame(self_id, scale, size) == [state_id |-> self_id, scale |-> scale, size |-> size]

run_resetting(area, size, scale, modifiers) ==
  /\ ctx' = Append(ctx, RawInput(area, scale, modifiers, drain(events).taken))
  /\ events' = drain(events).left
  /\ frame' = <<EguiFrame(id, scale, size)>>
  /\ last_pointer_position' = [x |-> 0, y |-> 0]
  /\ UNCHANGED <<id, pointers, panicked>>

run(area, size, scale, modifiers) ==
  /\ ctx' = Append(ctx, RawInput(area, scale, modifiers, drain(events).taken))
  /\ events' = drain(events).left
  /\ frame' = <<EguiFrame(id, scale, size)>>
  /\ UNCHANGED <<id, pointers, last_pointer_position, panicked>>

(***************************************************************************)
(* EguiFrame: drawing.                                                     *)
(***************************************************************************)
\* EguiFrame::draw: the calls made on the graphics context and the result;
\* painter_new_ok is whether Painter::new succeeds
EguiFrame_draw_leaky(painter_new_ok) ==
  IF ~painter_new_ok
    THEN [result |-> "Err", gl |-> <<"from_loader_function", "Painter::new">>]
    ELSE [result |-> "Ok",
          gl |-> <<"from_loader_function", "Painter::new", "upload_egui_texture",
                   "paint_meshes", "disable(SCISSOR_TEST)", "disable(BLEND)">>]

EguiFrame_draw(painter_new_ok) ==
  IF ~painter_new_ok
    THEN [result |-> "Err", gl |-> <<"from_loader_function", "Painter::new">>]
    ELSE [result |-> "Ok",
          gl |-> <<"from_loader_function", "Painter::new", "upload_egui_texture",
                   "paint_meshes", "disable(SCISSOR_TEST)", "disable(BLEND)", "destroy">>]

\* <EguiFrame as RenderElement>::draw
RenderElement_draw_propagate(painter_new_ok) ==
  LET r == EguiFrame_draw(painter_new_ok)
  IN [result |-> r.result, gl |-> r.gl, logged |-> <<>>]

RenderElement_draw(painter_new_ok) ==
  LET r == EguiFrame_draw(painter_new_ok)
  IN [result |-> "Ok", gl |-> r.gl,
      logged |-> IF r.result = "Err" THEN <<"egui rendering error">> ELSE <<>>]

\* <EguiFrame as RenderElement>::id
RenderElement_id_scale(f) == f.scale

RenderElement_id(f) == f.state_id

\* i32::MAX
I32_MAX == 2147483647

\* <EguiFrame as RenderElement>::accumulated_damage
accumulated_damage_sized(f) ==
  << [loc |-> [x |-> 0, y |-> 0], size |-> f.size] >>

accumulated_damage(f) ==
  << [loc |-> [x |-> 0, y |-> 0], size |-> [w |-> I32_MAX, h |-> I32_MAX]] >>

(***************************************************************************)
(* The host driving one EguiState (Spec).                                  *)
(***************************************************************************)
\* what the host passes to run
Areas == { [loc |-> [x |-> 0, y |-> 0], size |-> [w |-> 100, h |-> 100]] }
Sizes == { [w |-> 200, h |-> 200] }
Scales == { 4 }

\* what a call appended to the queue, read off the queue before and after it
Pushed(old, new) ==
  IF Len(new) >= Len(old) THEN SubSeq(new, Len(old) + 1, Len(new)) ELSE <<>>

CanCall(bound) == ~panicked /\ Len(log) < bound

Called(op, arg) ==
  log' = Append(log, [op |-> op, arg |-> arg, pushed |-> Pushed(events, events'),
                      panicked |-> panicked'])

HandleDeviceAdded ==
  \E device \in Devices :
    /\ CanCall(MaxCalls)
    /\ handle_device_added(device)
    /\ Called("handle_device_added", [device |-> device])
    /\ UNCHANGED <<ctx, frame, last_draw>>
    /\ UNCHANGED regvars

HandleDeviceRemoved ==
  \E device \in Devices :
    /\ CanCall(MaxCalls)
    /\ handle_device_removed(device)
    /\ Called("handle_device_removed", [device |-> device])
    /\ UNCHANGED <<ctx, frame, last_draw>>
    /\ UNCHANGED regvars

HandleKeyboard ==
  \E raw_syms \in RawSymLists, pressed \in BOOLEAN, modifiers \in ModifiersStates :
    /\ CanCall(MaxCalls)
    /\ handle_keyboard(raw_syms, pressed, modifiers)
    /\ Called("handle_keyboard",
              [raw_syms |-> raw_syms, pressed |-> pressed, modifiers |-> modifiers])
    /\ UNCHANGED <<ctx, frame, last_draw>>
    /\ UNCHANGED regvars

HandlePointerMotion ==
  \E position \in Positions :
    /\ CanCall(MaxCalls)
    /\ handle_pointer_motion(position)
    /\ Called("handle_pointer_motion", [position |-> position])
    /\ UNCHANGED <<ctx, frame, last_draw>>
    /\ UNCHANGED regvars

HandlePointerButton ==
  \E in \in ButtonInputs :
    /\ CanCall(MaxCalls)
    /\ handle_pointer_button(in.button, in.pressed, in.modifiers)
    /\ Called("handle_pointer_button", in)
    /\ UNCHANGED <<ctx, frame, last_draw>>
    /\ UNCHANGED regvars

HandlePointerAxis ==
  \E amount \in AxisAmounts :
    /\ CanCall(MaxCalls)
    /\ handle_pointer_axis(amount.x, amount.y)
    /\ Called("handle_pointer_axis", [x_amount |-> amount.x, y_amount |-> amount.y])
    /\ UNCHANGED <<ctx, frame, last_draw>>
    /\ UNCHANGED regvars

Run ==
  \E area \in Areas, size \in Sizes, scale \in Scales, modifiers \in ModifiersStates :
    /\ CanCall(MaxCalls)
    /\ run(area, size, scale, modifiers)
    /\ Called("run", [area |-> area, size |-> size, scale |-> scale, modifiers |-> modifiers])
    /\ UNCHANGED last_draw
    /\ UNCHANGED regvars

\* the host calls EguiFrame::draw on the frame it holds
FrameDraw ==
  \E painter_new_ok \in BOOLEAN :
    /\ CanCall(MaxCalls)
    /\ frame # <<>>
    /\ last_draw' = <<[entry |-> "EguiFrame::draw", painter_new_ok |-> painter_new_ok,
                       out |-> EguiFrame_draw(painter_new_ok)]>>
    /\ UNCHANGED <<id, pointers, last_pointer_position, events, ctx, frame, panicked>>
    /\ Called("EguiFrame::draw", [painter_new_ok |-> painter_new_ok])
    /\ UNCHANGED regvars

\* the host's space draws the frame as a RenderElement
ElementDraw ==
  \E painter_new_ok \in BOOLEAN :
    /\ CanCall(MaxCalls)
    /\ frame # <<>>
    /\ last_draw' = <<[entry |-> "RenderElement::draw", painter_new_ok |-> painter_new_ok,
                       out |-> RenderElement_draw(painter_new_ok)]>>
    /\ UNCHANGED <<id, pointers, last_pointer_position, events, ctx, frame, panicked>>
    /\ Called("RenderElement::draw", [painter_new_ok |-> painter_new_ok])
    /\ UNCHANGED regvars

\* the host's space asks the frame, as a RenderElement, for its damage
ElementDamage ==
  /\ CanCall(MaxCalls)
  /\ frame # <<>>
  /\ last_draw' = <<[entry |-> "RenderElement::accumulated_damage",
                     out |-> accumulated_damage(frame[1])]>>
  /\ UNCHANGED <<id, pointers, last_pointer_position, events, ctx, frame, panicked>>
  /\ Called("RenderElement::accumulated_damage", [frame |-> frame[1]])
  /\ UNCHANGED regvars

\* EguiState::new() has returned on the host thread, in a fresh process
Init ==
  /\ debug_assertions \in BOOLEAN
  /\ EGUI_ID = 1
  /\ EGUI_IDS = {0}
  /\ mutex = 0
  /\ poisoned = FALSE
  /\ pc = [t \in Threads |-> "idle"]
  /\ cand = [t \in Threads |-> 0]
  /\ returned = [t \in Threads |-> IF t = 1 THEN <<0>> ELSE <<>>]
  /\ frames = <<>>
  /\ id = 0
  /\ pointers = 0
  /\ last_pointer_position = [x |-> 0, y |-> 0]
  /\ events = <<>>
  /\ ctx = <<>>
  /\ frame = <<>>
  /\ last_draw = <<>>
  /\ panicked = FALSE
  /\ log = <<>>

Next ==
  \/ HandleDeviceAdded
  \/ HandleDeviceRemoved
  \/ HandleKeyboard
  \/ HandlePointerMotion
  \/ HandlePointerButton
  \/ HandlePointerAxis
  \/ Run
  \/ FrameDraw
  \/ ElementDraw
  \/ ElementDamage

Spec == Init /\ [][Next]_vars

(***************************************************************************)
(* run on areas and scales drawn from bounded sets (SpecRun).              *)
(***************************************************************************)
RunAreas ==
  { [loc |-> [x |-> x, y |-> y], size |-> [w |-> w, h |-> h]] :
      x \in {0, 3, -7, 16777217}, y \in {0, 5}, w \in {100, 1}, h \in {100, 3} }
RunScales == { 2, 3, 4 }

RunArea ==
  \E area \in RunAreas, size \in Sizes, scale \in RunScales, modifiers \in ModifiersStates :
    /\ CanCall(MaxRuns)
    /\ run(area, size, scale, modifiers)
    /\ Called("run", [area |-> area, size |-> size, scale |-> scale, modifiers |-> modifiers])
    /\ UNCHANGED last_draw
    /\ UNCHANGED regvars

NextRun == RunArea

SpecRun == Init /\ [][NextRun]_vars

(***************************************************************************)
(* One host thread constructing EguiStates and running them (SpecFrames).  *)
(***************************************************************************)
\* EguiStates the host constructs
MaxStates == 2
\* frames the host keeps
MaxFrames == 3

\* EguiState::new is entered on the host thread
HostNew ==
  /\ pc[1] = "idle"
  /\ Len(returned[1]) < MaxStates
  /\ pc' = [pc EXCEPT ![1] = "lock"]
  /\ UNCHANGED <<debug_assertions, EGUI_ID, EGUI_IDS, mutex, poisoned, cand, returned>>
  /\ UNCHANGED <<frames, statevars>>

\* run on the k-th EguiState the host constructed, whose id field holds the
\* k-th value next_id returned; the frame is kept with the k it came from
HostRun ==
  \E k \in 1..Len(returned[1]), size \in Sizes, scale \in RunScales :
    /\ pc[1] = "idle"
    /\ Len(frames) < MaxFrames
    /\ frames' = Append(frames, [by |-> k, frame |-> EguiFrame(returned[1][k], scale, size)])
    /\ UNCHANGED <<debug_assertions, EGUI_ID, EGUI_IDS, mutex, poisoned, pc, cand, returned>>
    /\ UNCHANGED statevars

NextFrames ==
  \/ HostNew
  \/ NextIdLock(1)
  \/ NextIdAssert(1)
  \/ NextIdFetch(1)
  \/ NextIdLoop(1)
  \/ NextIdInsert(1)
  \/ NextIdReturn(1)
  \/ HostRun

SpecFrames == InitIds /\ [][NextFrames]_vars

(***************************************************************************)
(* Reading the call log.                                                   *)
(***************************************************************************)
\* the events pushed by the calls log[a] .. log[b], in call order
RECURSIVE PushedIn(_, _)
PushedIn(a, b) == IF a > b THEN <<>> ELSE log[a].pushed \o PushedIn(a + 1, b)

\* the position in the log of the last run before call n, 0 when there is none
PrevRun(n) ==
  LET S == {m \in 1..(n - 1) : log[m].op = "run"}
  IN IF S = {} THEN 0 ELSE CHOOSE m \in S : \A k \in S : k <= m

\* the number of runs among log[1] .. log[n]
RunNo(n) == Cardinality({m \in 1..n : log[m].op = "run"})

IsDeviceCall(e) == e.op \in {"handle_device_added", "handle_device_removed"}
IsKeyEvent(e) == e.type = "Key"
IsPointerGone(e) == e.type = "PointerGone"

(***************************************************************************)
(* Claims about the identity registry (SpecIds).                           *)
(***************************************************************************)
\* C1: the identifiers next_id has returned, to whichever threads and in
\* whichever interleaving of the calls, are pairwise distinct.
C1_IdsPairwiseDistinct ==
  \A t \in Threads, u \in Threads :
    \A i \in 1..Len(returned[t]), j \in 1..Len(returned[u]) :
      (t # u \/ i # j) => returned[t][i] # returned[u][j]

\* C1 witness: both threads hold identifiers and a third call is under way
\* while another thread waits for the lock.
C1_Witness ==
  /\ \A t \in Threads : Len(returned[t]) >= 1
  /\ \E t \in Threads : mutex = t /\ pc[t] = "insert"
  /\ \E u \in Threads : pc[u] = "lock"

\* C2: the value next_id is about to insert and return is in neither the live
\* set nor the identifiers returned so far; every identifier returned so far
\* stays in the live set; a candidate found in the live set is never the one
\* returned, also once the counter has wrapped around.
C2_FreshAgainstLiveSet ==
  /\ ReturnedSet \subseteq EGUI_IDS
  /\ \A t \in Threads :
       /\ pc[t] = "insert" => cand[t] \notin EGUI_IDS
       /\ pc[t] = "ret" => cand[t] \notin ReturnedSet

\* C2 witness: identifiers have been returned, the counter has wrapped around
\* to values that are live, and a call is skipping such a candidate.
C2_Witness ==
  /\ ReturnedSet # {}
  /\ \E t \in Threads : pc[t] = "loop" /\ cand[t] \in EGUI_IDS /\ cand[t] \in ReturnedSet

(***************************************************************************)
(* Claims about the event queue (Spec).                                    *)
(***************************************************************************)
\* C3: when the last call is a run, the events that run handed to the UI pass
\* are exactly the events the calls since the previous run (or since
\* construction) pushed, in call order, and the pending queue is empty.
C3_EventOrdering ==
  (Len(log) > 0 /\ log[Len(log)].op = "run") =>
    /\ Len(ctx) > 0
    /\ ctx[Len(ctx)].events = PushedIn(PrevRun(Len(log)) + 1, Len(log) - 1)
    /\ events = <<>>

\* C3 witness: two handler calls that each pushed an event, distinct events,
\* then a run.
C3_Witness ==
  /\ Len(log) = 3
  /\ log[3].op = "run"
  /\ Len(log[1].pushed) = 1
  /\ Len(log[2].pushed) = 1
  /\ log[1].pushed # log[2].pushed

\* C4: every run received exactly the events pushed after the run before it,
\* so each pushed event reaches one UI pass, the first run after its push; and
\* the pending queue holds exactly the events pushed since the last run.
C4_DeliveredOnce ==
  /\ Len(ctx) = RunNo(Len(log))
  /\ \A n \in 1..Len(log) :
       log[n].op = "run" => ctx[RunNo(n)].events = PushedIn(PrevRun(n) + 1, n - 1)
  /\ events = PushedIn(PrevRun(Len(log) + 1) + 1, Len(log))

\* C4 witness: an event is pushed, a run delivers it, and a second run follows.
C4_Witness ==
  /\ Len(log) = 3
  /\ Len(log[1].pushed) = 1
  /\ log[2].op = "run"
  /\ log[3].op = "run"
  /\ Len(ctx) = 2
  /\ ctx[1].events = log[1].pushed
  /\ ctx[2].events = <<>>

\* C5: from a fresh EguiState, when the device calls so far are one pointer
\* device added and then removed, and the removal is the last call, the
\* pending queue ends with PointerGone; when they are two pointer devices
\* added and one of them removed, no PointerGone has been pushed.
C5_PointerGoneSynthesis ==
  LET dev == SelectSeq(log, IsDeviceCall)
  IN /\ ( /\ Len(dev) = 2
          /\ dev[1].op = "handle_device_added"
          /\ dev[2].op = "handle_device_removed"
          /\ has_capability(dev[1].arg.device, "Pointer")
          /\ dev[2].arg.device = dev[1].arg.device
          /\ IsDeviceCall(log[Len(log)]) )
        => (events # <<>> /\ events[Len(events)] = PointerGone)
     /\ ( /\ Len(dev) = 3
          /\ dev[1].op = "handle_device_added"
          /\ dev[2].op = "handle_device_added"
          /\ dev[3].op = "handle_device_removed"
          /\ has_capability(dev[1].arg.device, "Pointer")
          /\ has_capability(dev[2].arg.device, "Pointer")
          /\ dev[1].arg.device # dev[2].arg.device
          /\ dev[3].arg.device \in {dev[1].arg.device, dev[2].arg.device} )
        => (SelectSeq(PushedIn(1, Len(log)), IsPointerGone) = <<>>
            /\ SelectSeq(events, IsPointerGone) = <<>>)

\* C5 witness: two pointer devices added, one of them removed.
C5_Witness ==
  /\ Len(log) = 3
  /\ log[1].op = "handle_device_added" /\ log[1].arg.device.name = "mouse1"
  /\ log[2].op = "handle_device_added" /\ log[2].arg.device.name = "mouse2"
  /\ log[3].op = "handle_device_removed" /\ log[3].arg.device.name = "mouse1"
  /\ pointers = 1

\* the position in the log of the last handle_pointer_motion before call n
PrevMotion(n) ==
  LET S == {m \in 1..(n - 1) : log[m].op = "handle_pointer_motion"}
  IN IF S = {} THEN 0 ELSE CHOOSE m \in S : \A k \in S : k <= m

\* C6: a handle_pointer_button call with a mapped button pushes one
\* PointerButton event, positioned (as a Pos2) at the position of the most
\* recent preceding handle_pointer_motion call, whatever was called in between.
C6_ButtonPositionBackfill ==
  \A n \in 1..Len(log) :
    ( /\ log[n].op = "handle_pointer_button"
      /\ convert_button(log[n].arg.button) # <<>>
      /\ PrevMotion(n) # 0 )
    => /\ Len(log[n].pushed) = 1
       /\ log[n].pushed[1].type = "PointerButton"
       /\ log[n].pushed[1].pos = Pos2(log[PrevMotion(n)].arg.position)

\* C6 witness: motion to (10,20), a run in between, then a press that is
\* reported at (10,20).
C6_Witness ==
  /\ Len(log) = 3
  /\ log[1].op = "handle_pointer_motion" /\ log[1].arg.position = [x |-> 10, y |-> 20]
  /\ log[2].op = "run"
  /\ log[3].op = "handle_pointer_button"
  /\ Len(log[3].pushed) = 1
  /\ log[3].pushed[1].pos = [x |-> 10, y |-> 20]

\* a call whose input the normalizer maps to nothing
UnmappedCall(e) ==
  \/ e.op = "handle_keyboard" /\ convert_key(e.arg.raw_syms) = <<>>
  \/ e.op = "handle_pointer_button" /\ convert_button(e.arg.button) = <<>>

\* C7: a handle_keyboard call none of whose raw symbols is mapped, and a
\* handle_pointer_button call whose button is not mapped, push no event, do
\* not fail, and leave every field of the EguiState and the frame as it was.
C7_UnmappedInert ==
  [][ (Len(log') = Len(log) + 1 /\ UnmappedCall(log'[Len(log')]))
      => /\ UNCHANGED <<id, pointers, last_pointer_position, events, ctx, frame, last_draw>>
         /\ ~panicked'
         /\ log'[Len(log')].pushed = <<>> ]_vars

\* C7 witness: with an event pending, an unmapped key and an unmapped button
\* were passed in and the queue is as before.
C7_Witness ==
  /\ Len(log) = 3
  /\ log[1].op = "handle_pointer_motion"
  /\ log[2].op = "handle_keyboard" /\ convert_key(log[2].arg.raw_syms) = <<>>
  /\ log[3].op = "handle_pointer_button" /\ convert_button(log[3].arg.button) = <<>>
  /\ events = log[1].pushed

\* C8: for a press call and a later release call of handle_keyboard that
\* resolve to the same key, with no handle_keyboard call between them, the key
\* events pushed from the press through the release are exactly two: pressed
\* then released, both with that key, each with its own call's modifiers.
C8_KeyBalance ==
  \A i \in 1..Len(log), j \in 1..Len(log) :
    ( /\ i < j
      /\ log[i].op = "handle_keyboard" /\ log[j].op = "handle_keyboard"
      /\ log[i].arg.pressed /\ ~log[j].arg.pressed
      /\ convert_key(log[i].arg.raw_syms) # <<>>
      /\ convert_key(log[i].arg.raw_syms) = convert_key(log[j].arg.raw_syms)
      /\ \A k \in (i + 1)..(j - 1) : log[k].op # "handle_keyboard" )
    => SelectSeq(PushedIn(i, j), IsKeyEvent)
         = << Key(convert_key(log[i].arg.raw_syms)[1], TRUE,
                  convert_modifiers(log[i].arg.modifiers)),
              Key(convert_key(log[j].arg.raw_syms)[1], FALSE,
                  convert_modifiers(log[j].arg.modifiers)) >>

\* C8 witness: a press and a release of the same key, reached through different
\* raw symbols and with different modifiers, with another call in between.
C8_Witness ==
  /\ Len(log) = 3
  /\ log[1].op = "handle_keyboard" /\ log[1].arg.pressed
  /\ log[2].op = "handle_pointer_motion"
  /\ log[3].op = "handle_keyboard" /\ ~log[3].arg.pressed
  /\ log[1].arg.raw_syms # log[3].arg.raw_syms
  /\ log[1].arg.modifiers # log[3].arg.modifiers
  /\ convert_key(log[1].arg.raw_syms) = <<"A">>
  /\ convert_key(log[3].arg.raw_syms) = <<"A">>

(***************************************************************************)
(* Claims about run's screen rectangle (SpecRun).                          *)
(***************************************************************************)
\* the screen rectangle of corners (x*s, y*s) and (x*s + w*s, y*s + h*s)
ScaledRect(area, s) ==
  [min |-> [x |-> area.loc.x * s, y |-> area.loc.y * s],
   max |-> [x |-> area.loc.x * s + area.size.w * s,
            y |-> area.loc.y * s + area.size.h * s]]

\* an integer that f32 holds exactly for certain: magnitude at most 2^24
F32Exact(v) == Abs(v) <= Pow2(24)

\* C9 as stated: for every run with an integer scale s, the screen rectangle
\* fed to the UI pass has corners (x*s, y*s) and (x*s + w*s, y*s + h*s).
C9_AsStated ==
  \A n \in 1..Len(log) :
    (log[n].op = "run" /\ log[n].arg.scale % 2 = 0)
    => ctx[RunNo(n)].screen_rect = ScaledRect(log[n].arg.area, log[n].arg.scale \div 2)

\* C9 amended: the same, for the runs where x*s, y*s, w*s, h*s and the two
\* sums have magnitude at most 2^24, which f32 represents exactly.
C9_FrameAreaConversion ==
  \A n \in 1..Len(log) :
    LET a == log[n].arg.area
        s == log[n].arg.scale \div 2
    IN ( /\ log[n].op = "run"
         /\ log[n].arg.scale % 2 = 0
         /\ \A v \in {a.loc.x * s, a.loc.y * s, a.size.w * s, a.size.h * s,
                      a.loc.x * s + a.size.w * s, a.loc.y * s + a.size.h * s} :
              F32Exact(v) )
       => ctx[RunNo(n)].screen_rect = ScaledRect(a, s)

\* C9 witness: area (0,0,100,100) at scale 2.0 gave the rectangle (0,0,200,200).
C9_Witness ==
  /\ Len(log) = 1
  /\ log[1].op = "run"
  /\ log[1].arg.area = [loc |-> [x |-> 0, y |-> 0], size |-> [w |-> 100, h |-> 100]]
  /\ log[1].arg.scale = 4
  /\ ctx[1].screen_rect = [min |-> [x |-> 0, y |-> 0], max |-> [x |-> 200, y |-> 200]]

(***************************************************************************)
(* Claims about drawing (Spec).                                            *)
(***************************************************************************)
\* C10: every call of the RenderElement draw entry point returns Ok; when
\* EguiFrame::draw failed inside it, the failure was logged.
C10_ElementDrawAlwaysOk ==
  (last_draw # <<>> /\ last_draw[1].entry = "RenderElement::draw")
  => /\ last_draw[1].out.result = "Ok"
     /\ EguiFrame_draw(last_draw[1].painter_new_ok).result = "Err"
          => last_draw[1].out.logged = <<"egui rendering error">>

\* C10 witness: the painter could not be constructed, the RenderElement draw
\* logged it and returned Ok.
C10_Witness ==
  /\ last_draw # <<>>
  /\ last_draw[1].entry = "RenderElement::draw"
  /\ ~last_draw[1].painter_new_ok
  /\ last_draw[1].out.result = "Ok"
  /\ last_draw[1].out.logged # <<>>

(***************************************************************************)
(* Claims about the render element (Spec).                                 *)
(***************************************************************************)
\* C11: whatever calls produced the frame, its accumulated_damage is exactly
\* one rectangle, at (0,0), of the largest 32-bit signed width and height.
C11_DamageAlwaysFull ==
  (last_draw # <<>> /\ last_draw[1].entry = "RenderElement::accumulated_damage")
  => /\ Len(last_draw[1].out) = 1
     /\ last_draw[1].out[1].loc = [x |-> 0, y |-> 0]
     /\ last_draw[1].out[1].size.w = (Pow2(30) - 1) + Pow2(30)
     /\ last_draw[1].out[1].size.h = (Pow2(30) - 1) + Pow2(30)

\* C11 witness: an event was delivered to the run that made the frame, and
\* the frame's damage was then asked for.
C11_Witness ==
  /\ Len(log) = 3
  /\ Len(log[1].pushed) = 1
  /\ log[2].op = "run"
  /\ log[3].op = "RenderElement::accumulated_damage"
  /\ last_draw[1].entry = "RenderElement::accumulated_damage"
  /\ Len(last_draw[1].out) = 1

\* C12: (SpecFrames) every frame reports, through the render element's id,
\* the id of the EguiState that produced it: frames of one EguiState report
\* the same id, frames of different EguiStates report different ids.
C12_FrameReportsStateId ==
  \A i \in 1..Len(frames), j \in 1..Len(frames) :
    /\ RenderElement_id(frames[i].frame) = returned[1][frames[i].by]
    /\ (frames[i].by = frames[j].by)
         <=> (RenderElement_id(frames[i].frame) = RenderElement_id(frames[j].frame))

\* C12 witness: two frames of the first EguiState and one of the second.
C12_Witness ==
  /\ Len(frames) = 3
  /\ frames[1].by = 1
  /\ frames[2].by = 2
  /\ frames[3].by = 1
  /\ RenderElement_id(frames[1].frame) = RenderElement_id(frames[3].frame)
  /\ RenderElement_id(frames[1].frame) # RenderElement_id(frames[2].frame)

(***************************************************************************)
(* Claims about the device handlers (Spec).                                *)
(***************************************************************************)
\* the step is a call of handler op
CallOf(op) == Len(log') = Len(log) + 1 /\ log'[Len(log')].op = op

\* C13: a handle_device_removed call pushes exactly one PointerGone when it
\* brings the pointer-device count to zero and pushes nothing otherwise;
\* removing a device without pointer capability changes neither the count
\* nor the queue.
C13_PointerGoneOnlyOnLastRemoval ==
  [][ CallOf("handle_device_removed")
      => /\ IF pointers # 0 /\ pointers' = 0
              THEN log'[Len(log')].pushed = <<PointerGone>>
              ELSE log'[Len(log')].pushed = <<>>
         /\ ~has_capability(log'[Len(log')].arg.device, "Pointer")
              => UNCHANGED <<pointers, events>> ]_vars

\* the devices attached after the calls log[1] .. log[n]
RECURSIVE AttachedAfter(_)
AttachedAfter(n) ==
  IF n = 0 THEN {}
  ELSE IF log[n].op = "handle_device_added"
         THEN AttachedAfter(n - 1) \cup {log[n].arg.device}
  ELSE IF log[n].op = "handle_device_removed"
         THEN AttachedAfter(n - 1) \ {log[n].arg.device}
  ELSE AttachedAfter(n - 1)

\* each removed device was added earlier and not yet removed
RemovalsOfAttached ==
  \A m \in 1..Len(log) :
    log[m].op = "handle_device_removed" => log[m].arg.device \in AttachedAfter(m - 1)

\* no device is added while it is attached
AddsOfDetached ==
  \A m \in 1..Len(log) :
    log[m].op = "handle_device_added" => log[m].arg.device \notin AttachedAfter(m - 1)

PointerDevices(S) == {d \in S : has_capability(d, "Pointer")}

\* C14 as stated: when every removed device was attached, the count equals the
\* number of attached devices with pointer capability.
C14_AsStated ==
  RemovalsOfAttached
    => pointers = Cardinality(PointerDevices(AttachedAfter(Len(log))))

\* C14 amended: the same, when in addition no device is added while attached;
\* and a call for a device without pointer capability leaves the count alone.
C14_CountIsAttachedPointers ==
  /\ []((RemovalsOfAttached /\ AddsOfDetached)
          => pointers = Cardinality(PointerDevices(AttachedAfter(Len(log)))))
  /\ [][ ((CallOf("handle_device_added") \/ CallOf("handle_device_removed"))
           /\ ~has_capability(log'[Len(log')].arg.device, "Pointer"))
         => pointers' = pointers ]_vars

\* C14 witness: a pointer device and a keyboard were added and the keyboard
\* removed; the count is 1.
C14_Witness ==
  /\ Len(log) = 3
  /\ log[1].op = "handle_device_added" /\ log[1].arg.device.name = "mouse1"
  /\ log[2].op = "handle_device_added" /\ log[2].arg.device.name = "kbd"
  /\ log[3].op = "handle_device_removed" /\ log[3].arg.device.name = "kbd"
  /\ pointers = 1

(***************************************************************************)
(* Claims about the handlers' effect on the queue (Spec).                  *)
(***************************************************************************)
HandlerOps ==
  {"handle_device_added", "handle_device_removed", "handle_keyboard",
   "handle_pointer_motion", "handle_pointer_button", "handle_pointer_axis"}

\* C15: every input handler leaves the toolkit's inputs alone and changes the
\* queue only by appending zero or one event at its tail; handle_pointer_motion
\* and handle_pointer_axis append exactly one.
C15_HandlersAppendAtTail ==
  [][ (\E op \in HandlerOps : CallOf(op))
      => /\ ctx' = ctx
         /\ \/ events' = events
            \/ /\ Len(events') = Len(events) + 1
               /\ SubSeq(events', 1, Len(events)) = events
         /\ (CallOf("handle_pointer_motion") \/ CallOf("handle_pointer_axis"))
              => Len(events') = Len(events) + 1 ]_vars

\* C15 witness: a motion and then an axis call each appended one event, the
\* motion's event still first.
C15_Witness ==
  /\ Len(log) = 2
  /\ log[1].op = "handle_pointer_motion"
  /\ log[2].op = "handle_pointer_axis"
  /\ Len(events) = 2
  /\ events[1].type = "PointerMoved"
  /\ events[2].type = "Scroll"

(***************************************************************************)
(* Claims about EguiFrame::draw (Spec).                                    *)
(***************************************************************************)
DrawSteps ==
  <<"from_loader_function", "Painter::new", "upload_egui_texture", "paint_meshes",
    "disable(SCISSOR_TEST)", "disable(BLEND)", "destroy">>

StepNo(step) == CHOOSE k \in 1..Len(DrawSteps) : DrawSteps[k] = step

Performed(gl) == {gl[k] : k \in 1..Len(gl)}

\* C16: EguiFrame::draw performs its steps in the listed order; when painter
\* construction fails it returns an error and performs nothing after the
\* construction; when it returns Ok both disables and the destroy were performed.
C16_DrawStepOrder ==
  (last_draw # <<>> /\ last_draw[1].entry = "EguiFrame::draw")
  => LET gl == last_draw[1].out.gl
         res == last_draw[1].out.result
     IN /\ Performed(gl) \subseteq Performed(DrawSteps)
        /\ \A i \in 1..Len(gl), j \in 1..Len(gl) :
             i < j => StepNo(gl[i]) < StepNo(gl[j])
        /\ {"from_loader_function", "Painter::new"} \subseteq Performed(gl)
        /\ (res = "Err") <=> ~last_draw[1].painter_new_ok
        /\ res = "Err"
             => Performed(gl) \cap {"upload_egui_texture", "paint_meshes",
                                    "disable(SCISSOR_TEST)", "disable(BLEND)",
                                    "destroy"} = {}
        /\ res = "Ok" => Performed(gl) = Performed(DrawSteps)

\* C16 witness: a frame was drawn directly and painter construction failed.
C16_Witness ==
  /\ last_draw # <<>>
  /\ last_draw[1].entry = "EguiFrame::draw"
  /\ ~last_draw[1].painter_new_ok
  /\ last_draw[1].out.result = "Err"
  /\ Len(last_draw[1].out.gl) = 2

(***************************************************************************)
(* Claims about next_id's progress and its assertion (SpecIdsFair, SpecIds) *)
(***************************************************************************)
LiveSetFull == Cardinality(EGUI_IDS) = USIZE_MAX + 1

\* C17: under fair scheduling every caller that entered next_id gets its
\* identifier (is back at "idle" with the lock released), unless every
\* identifier value is in the live set.
C17_EveryCallerObtainsId ==
  \A t \in Threads : (pc[t] # "idle") ~> (pc[t] = "idle" \/ LiveSetFull)

\* C18: whenever a debug build evaluates the assertion it holds, no caller
\* aborts and the registry lock is never poisoned.
C18_AssertionValid ==
  /\ \A t \in Threads :
       (debug_assertions /\ pc[t] = "assert")
         => BitNot(Cardinality(EGUI_IDS)) = USIZE_MAX
  /\ ~poisoned
  /\ \A t \in Threads : pc[t] # "panicked"

(***************************************************************************)
(* Claims about the pointer-device counter and the frame conditions (Spec) *)
(***************************************************************************)
\* C19: no handle_device_removed call aborts or leaves the counter larger
\* than it found it (the unsigned counter does not wrap below zero).
C19_CountNeverBelowZero ==
  [][ CallOf("handle_device_removed")
      => (~panicked' /\ pointers' <= pointers) ]_vars

\* C20: the identifier never changes; the last pointer position changes only in
\* handle_pointer_motion; the pointer-device count changes only in
\* handle_device_added and handle_device_removed; run leaves all three alone.
C20_FrameConditions ==
  [][ /\ id' = id
      /\ last_pointer_position' # last_pointer_position
           => CallOf("handle_pointer_motion")
      /\ pointers' # pointers
           => (CallOf("handle_device_added") \/ CallOf("handle_device_removed"))
      /\ CallOf("run") => UNCHANGED <<id, pointers, last_pointer_position>> ]_vars

\* C20 witness: after a motion and a device addition, run emptied the queue
\* and passed the input on while position and count kept their values.
C20_Witness ==
  /\ Len(log) = 3
  /\ log[1].op = "handle_pointer_motion"
  /\ log[2].op = "handle_device_added"
  /\ log[3].op = "run"
  /\ last_pointer_position = [x |-> 10, y |-> 20]
  /\ pointers = 1
  /\ events = <<>>
  /\ Len(ctx) = 1
  /\ id = 0

====
